---- MODULE Spec2Model ----
(***************************************************************************)
(* EntityDB (src/src/index.js): a vector store over one IndexedDB object   *)
(* store "vectors" (keyPath "id"), with cosine and Hamming queries.        *)
(*                                                                         *)
(* JavaScript values are modelled as records [t, v]:                       *)
(*   t = "arr"    an Array of numbers, v its elements                      *)
(*   t = "u64"    a BigUint64Array, v its words; a 64-bit word is the set  *)
(*                of its set bit positions (0 = least significant)         *)
(*   t = "str"    a string, v = <<code>>                                   *)
(*   t = "undef"  undefined                                                *)
(* A stored object is a function from property names to values; the        *)
(* property "id" holds an integer, every other property a [t, v] value.    *)
(***************************************************************************)
EXTENDS Integers, Sequences, FiniteSets, TLC

\* ------------------------------------------------------------------ bounds
MaxBatch == 2
MaxLimit == 3
\* the bytes of the kernel's linear memory the model keeps (the module has
\* one 64 KiB page); a load that reaches past the memory traps
MemBytes == 64

\* ------------------------------------------------------- program constants
WordBits == 64
WordBytes == 8
OffsetB == 16
LaneBytes == 16

\* ------------------------------------------------------------- JS values
Arr(s) == [t |-> "arr", v |-> s]
U64(ws) == [t |-> "u64", v |-> ws]
Str(c) == [t |-> "str", v |-> <<c>>]
Undef == [t |-> "undef", v |-> <<>>]

\* obj[k]: a property read; an absent property reads as undefined
Get(obj, k) == IF k \in DOMAIN obj THEN obj[k] ELSE Undef
\* a ?? b
Coalesce(a, b) == IF a.t = "undef" THEN b ELSE a
\* Array.isArray(x): false for a typed array
IsArray(x) == x.t = "arr"
\* { ...a, ...b }
Spread(a, b) ==
  [k \in DOMAIN a \cup DOMAIN b |-> IF k \in DOMAIN b THEN b[k] ELSE a[k]]
\* data.id == null
NoId(data) == "id" \notin DOMAIN data
\* if (data.text): the property is present
HasText(data) == "text" \in DOMAIN data

Range(s) == {s[i] : i \in DOMAIN s}

\* -------------------------------------------------- embedding provider
\* pipe(text, {pooling, normalize}) -> Array.from(output.data)
\* The provider is external: the model fixes one dense vector per text.  Text
\* 1 embeds into 3 components; texts 2.. embed into EmbeddingWords(c) * 64
\* components, so that their packed form has 1, 2 or 4 words.
EmbeddingWords(c) == IF c = 2 THEN 1 ELSE IF c \in {3, 4} THEN 2 ELSE 4
getEmbeddingFromText(text) ==
  LET c == text.v[1]
  IN IF c = 1
       THEN <<3, 1, 2>>
       ELSE [i \in 1..(EmbeddingWords(c) * WordBits) |-> (i * (c + 1)) % 7]

\* ---------------------------------------------------------- quantizer
\* [...vector].sort((a, b) => a - b)[k - 1]: the k-th smallest element
Sorted(vector, k) ==
  CHOOSE x \in Range(vector) :
    /\ Cardinality({i \in DOMAIN vector : vector[i] < x}) < k
    /\ k <= Cardinality({i \in DOMAIN vector : vector[i] <= x})

\* twice the default threshold (the median), so that it stays an integer;
\* of an empty vector it is NaN, which no component is compared with
Threshold2(vector) ==
  LET mid == Len(vector) \div 2
  IN IF Len(vector) = 0
       THEN 0
       ELSE IF Len(vector) % 2 = 0
         THEN Sorted(vector, mid) + Sorted(vector, mid + 1)
         ELSE 2 * Sorted(vector, mid + 1)

binarizeVector(vector) ==
  LET threshold2 == Threshold2(vector)
  IN [i \in 1..Len(vector) |-> IF 2 * vector[i] >= threshold2 THEN 1 ELSE 0]

CeilDiv(a, b) == (a + b - 1) \div b

\* the packing loop of insertBinary / queryBinary / queryBinarySIMD
Pack(bits) ==
  [w \in 1..CeilDiv(Len(bits), WordBits) |->
     {(i - 1) % WordBits : i \in {j \in DOMAIN bits :
                                    /\ (j - 1) \div WordBits = w - 1
                                    /\ bits[j] = 1}}]

\* ------------------------------------------------------------ the backend
\* The object store "vectors" as a function from stored keys to objects.
EmptyStore == [k \in {} |-> Undef]
\* the effect of a successful store.put(rec) / store.add(rec)
Put(st, rec) ==
  [k \in DOMAIN st \cup {rec["id"]} |-> IF k = rec["id"] THEN rec ELSE st[k]]
\* the effect of store.delete(key)
Delete(st, key) == [k \in DOMAIN st \ {key} |-> st[k]]

\* ------------------------------------------------------------- the inputs
Ids == {1, 2}
EmptyObj == [k \in {} |-> Undef]
\* what a caller puts beside the id: nothing, a text to embed, a vector
Payloads(vp) == {EmptyObj, "text" :> Str(1), vp :> Arr(<<1, 0>>)}
\* the objects handed to the insert family: with and without an id
Records(vp) ==
  Payloads(vp) \cup {("id" :> i) @@ p : i \in Ids, p \in Payloads(vp)}
\* the items of a batch: a text or a vector, and one item without an id
BatchRecords(vp) ==
  {vp :> Arr(<<1, 0>>)}
    \cup {("id" :> i) @@ p : i \in Ids, p \in Payloads(vp) \ {EmptyObj}}
Batches(vp) ==
  UNION {[1..n -> BatchRecords(vp)] : n \in 0..MaxBatch}

\* ------------------------------------------------------------------ state
VARIABLES
  vectorPath,   \* this.vectorPath, fixed by the constructor
  store,        \* the committed content of the object store
  tx,           \* the readwrite transaction of the running batch insert
  task,         \* the running batch insert: its remaining loop
  wr,           \* history: the latest multi-record write and how it ended
  last,         \* history: the latest finished call, its result and the
                \* store it started from
  pipe          \* pipePromise: how often pipeline(...) was called and how
                \* its promise stands

vars == <<vectorPath, store, tx, task, wr, last, pipe>>

NoTx == [live |-> FALSE, work |-> EmptyStore]
NoTask ==
  [op |-> "none", items |-> <<>>, i |-> 0, pc |-> "idle", keys |-> <<>>]
NoWrite == [op |-> "none", status |-> "none", pre |-> EmptyStore]
NoCall ==
  [op |-> "none", arg |-> <<>>, err |-> "", ret |-> <<>>, pre |-> EmptyStore]
\* the record of a finished call
Done(op, arg, err, ret) ==
  [op |-> op, arg |-> arg, err |-> err, ret |-> ret, pre |-> store]

\* const pipePromise = pipeline(...) runs when the module is evaluated:
\* the promise is pending from then on, until the model has loaded or has
\* failed to load
Loading == [inits |-> 1, status |-> "pending"]
Loaded == [inits |-> 1, status |-> "ready"]

\* The calls of Spec are made once the model has loaded.
Init ==
  /\ vectorPath \in {"vector", "emb"}
  /\ store = EmptyStore
  /\ tx = NoTx
  /\ task = NoTask
  /\ wr = NoWrite
  /\ last = NoCall
  /\ pipe = Loaded

\* pipePromise settles
PipeSettle ==
  /\ pipe.status = "pending"
  /\ \E ok \in BOOLEAN :
       pipe' = [pipe EXCEPT !.status = IF ok THEN "ready" ELSE "failed"]
  /\ UNCHANGED <<vectorPath, store, tx, task, wr, last>>

\* await pipePromise in getEmbeddingFromText: the caller goes on once the
\* promise has settled, and rejects when it was rejected
Settled == pipe.status # "pending"

\* A call that opens its own transaction waits for a live readwrite
\* transaction on the same store to finish.
CanStart == ~tx.live

\* ---------------------------------------------------- single-record inserts
\* The outcome of one insert-family call on store st:
\* [err, st, key]; rec is the object handed to store.add.
\* store.add rejects with ConstraintError when the key is stored, and the
\* failed request aborts the transaction.
AddOutcome(st, rec) ==
  IF rec["id"] \in DOMAIN st
    THEN [err |-> "ConstraintError", st |-> st, key |-> 0]
    ELSE [err |-> "", st |-> Put(st, rec), key |-> rec["id"]]

\* insertOutcome with the id defaulted to 1 when the caller gives none
insertOutcomeDefaultId(st, data, vp) ==
  LET embedding ==
        IF HasText(data)
          THEN Arr(getEmbeddingFromText(data["text"]))
          ELSE Get(data, vp)
  IN AddOutcome(st, Spread(("vector" :> embedding) @@ ("id" :> 1), data))

insertOutcome(st, data, vp) ==
  IF NoId(data)
    THEN [err |-> "MissingIdentifier", st |-> st, key |-> 0]
    ELSE LET embedding ==
               IF HasText(data)
                 THEN Arr(getEmbeddingFromText(data["text"]))
                 ELSE Get(data, vp)
         IN AddOutcome(st, Spread("vector" :> embedding, data))

insertBinaryOutcome(st, data, vp) ==
  IF NoId(data)
    THEN [err |-> "MissingIdentifier", st |-> st, key |-> 0]
    ELSE LET embedding ==
               IF HasText(data)
                 THEN Arr(getEmbeddingFromText(data["text"]))
                 ELSE Get(data, vp)
         IN IF embedding.t = "undef"
              \* binarizeVector(undefined): [...undefined] throws
              THEN [err |-> "TypeError", st |-> st, key |-> 0]
              ELSE LET packedEmbedding == U64(Pack(binarizeVector(embedding.v)))
                   IN AddOutcome(st, Spread("vector" :> packedEmbedding, data))

insertManualVectorsOutcome(st, data, vp) ==
  IF NoId(data)
    THEN [err |-> "MissingIdentifier", st |-> st, key |-> 0]
    ELSE AddOutcome(st, Spread("vector" :> Get(data, vp), data))

SingleWrite(op, arg, out) ==
  /\ CanStart
  /\ store' = out.st
  /\ last' = Done(op, arg, out.err, out.key)
  /\ wr' = NoWrite
  /\ UNCHANGED <<vectorPath, pipe, tx, task>>

\* the call reaches await getEmbeddingFromText(data.text)
NeedsEmbedding(data) == ~NoId(data) /\ HasText(data)

PipelineFailed == [err |-> "PipelineError", st |-> store, key |-> 0]

insert(data) ==
  /\ NeedsEmbedding(data) => Settled
  /\ SingleWrite("insert", data,
                 IF NeedsEmbedding(data) /\ pipe.status = "failed"
                   THEN PipelineFailed
                   ELSE insertOutcome(store, data, vectorPath))

insertBinary(data) ==
  /\ NeedsEmbedding(data) => Settled
  /\ SingleWrite("insertBinary", data,
                 IF NeedsEmbedding(data) /\ pipe.status = "failed"
                   THEN PipelineFailed
                   ELSE insertBinaryOutcome(store, data, vectorPath))

insertManualVectors(data) ==
  SingleWrite("insertManualVectors", data,
              insertManualVectorsOutcome(store, data, vectorPath))

\* ----------------------------------------------------------- batch inserts
\* insertBatch / insertManualBatch open one readwrite transaction and loop
\* over dataArray.  The loop is modelled one suspension at a time:
\*   pc = "item": the top of the loop body (or the end of the loop)
\*   pc = "add" : resumed from the embedding provider, about to store.add
\* An IndexedDB transaction commits by itself once it has no pending request
\* when control returns to the event loop: a throw that leaves the function,
\* or an await on something other than a request of the transaction, ends it
\* with what was written so far.
BeginBatch(op, dataArray) ==
  /\ task.op = "none"
  /\ CanStart
  /\ tx' = [live |-> TRUE, work |-> store]
  /\ task' = [op |-> op, items |-> dataArray, i |-> 1, pc |-> "item",
              keys |-> <<>>]
  /\ wr' = [op |-> op, status |-> "running", pre |-> store]
  /\ last' = NoCall
  /\ UNCHANGED <<vectorPath, pipe, store>>

insertManualBatch(dataArray) == BeginBatch("insertManualBatch", dataArray)

insertBatch(dataArray) == BeginBatch("insertBatch", dataArray)

\* the batch call rejects with err; a transaction still live has no pending
\* request left and commits (commit = TRUE) or was aborted by its failed
\* request (commit = FALSE)
BatchThrow(err, commit) ==
  /\ store' = IF tx.live /\ commit THEN tx.work ELSE store
  /\ tx' = NoTx
  /\ task' = NoTask
  /\ wr' = [wr EXCEPT !.status = "failed"]
  /\ last' = [op |-> task.op, arg |-> task.items, err |-> err,
              ret |-> task.keys, pre |-> wr.pre]
  /\ UNCHANGED <<vectorPath, pipe>>

\* const key = await store.add(record); keys.push(key)
BatchAdd(data, embedding) ==
  LET record == Spread("vector" :> embedding, data)
  IN IF ~tx.live
       THEN BatchThrow("TransactionInactiveError", FALSE)
       ELSE IF record["id"] \in DOMAIN tx.work
         THEN BatchThrow("ConstraintError", FALSE)
         ELSE /\ tx' = [tx EXCEPT !.work = Put(tx.work, record)]
              /\ task' = [task EXCEPT !.i = task.i + 1, !.pc = "item",
                                      !.keys = Append(task.keys, record["id"])]
              /\ UNCHANGED <<vectorPath, pipe, store, wr, last>>

\* the loop body up to its first suspension that is not a backend request
BatchItem ==
  /\ task.pc = "item"
  /\ task.i <= Len(task.items)
  /\ LET data == task.items[task.i]
     IN IF NoId(data)
          THEN BatchThrow("MissingIdentifier", TRUE)
          ELSE IF task.op = "insertBatch" /\ HasText(data)
            \* await getEmbeddingFromText(...): the transaction may lapse
            THEN /\ Settled
                 /\ IF pipe.status = "failed"
                      THEN BatchThrow("PipelineError", TRUE)
                      ELSE \E lapse \in BOOLEAN :
                             /\ store' = IF tx.live /\ lapse
                                           THEN tx.work ELSE store
                             /\ tx' = IF lapse THEN NoTx ELSE tx
                             /\ task' = [task EXCEPT !.pc = "add"]
                             /\ UNCHANGED <<vectorPath, pipe, wr, last>>
            ELSE BatchAdd(data, Get(data, vectorPath))

\* resumed with the embedding of data.text
BatchResume ==
  /\ task.pc = "add"
  /\ LET data == task.items[task.i]
     IN BatchAdd(data, Arr(getEmbeddingFromText(data["text"])))

\* await tx.done; return keys
BatchDone ==
  /\ task.pc = "item"
  /\ task.i > Len(task.items)
  /\ store' = IF tx.live THEN tx.work ELSE store
  /\ tx' = NoTx
  /\ task' = NoTask
  /\ wr' = [wr EXCEPT !.status = "ok"]
  /\ last' = [op |-> task.op, arg |-> task.items, err |-> "",
              ret |-> task.keys, pre |-> wr.pre]
  /\ UNCHANGED <<vectorPath, pipe>>

\* ------------------------------------------------------------------ reads
\* the elements of a finite set of integers in ascending order: the order in
\* which the backend enumerates keys
Ascending(S) ==
  [i \in 1..Cardinality(S) |->
     CHOOSE x \in S : Cardinality({y \in S : y < x}) = i - 1]

\* record[this.vectorPath] ?? record.vector
ReadVector(record, vp) == Coalesce(Get(record, vp), Get(record, "vector"))

\* the vector queryManualVectors scores an entry by: entry[this.vectorPath],
\* or entry.vector when that is no Array
ResolveVector(entry, vp) ==
  IF IsArray(Get(entry, vp)) THEN Get(entry, vp) ELSE Get(entry, "vector")

\* the answer of hasEmbedding for one key on store st
hasEmbeddingOf(st, key, vp) ==
  IF key \notin DOMAIN st
    THEN FALSE
    ELSE LET vec == ReadVector(st[key], vp)
         IN IF ~IsArray(vec) \/ Len(vec.v) = 0 THEN FALSE ELSE TRUE

\* the answer of hasEmbeddings: result[key] for every key of keys
hasEmbeddingsOf(st, keys, vp) ==
  [key \in Range(keys) |->
     IF key \in DOMAIN st
       THEN LET vec == ReadVector(st[key], vp)
            IN IsArray(vec) /\ Len(vec.v) > 0
       ELSE FALSE]

\* A readonly call: it reads the committed store in one transaction.
Read(op, arg, ret) ==
  /\ CanStart
  /\ last' = Done(op, arg, "", ret)
  /\ UNCHANGED <<vectorPath, pipe, store, tx, task, wr>>

hasEmbedding(key) ==
  Read("hasEmbedding", key, hasEmbeddingOf(store, key, vectorPath))

hasEmbeddings(keys) ==
  Read("hasEmbeddings", keys, hasEmbeddingsOf(store, keys, vectorPath))

getAllKeys == Read("getAllKeys", <<>>, Ascending(DOMAIN store))

KeyLists == UNION {[1..n -> Ids] : n \in 0..MaxBatch}

\* ---------------------------------------------------------------- scoring
RECURSIVE SeqSum(_)
SeqSum(s) == IF s = <<>> THEN 0 ELSE s[1] + SeqSum(Tail(s))

\* cosineSimilarity(vecA, vecB), vecA an Array.  The quotient
\* dotProduct / (magnitudeA * magnitudeB) is kept as d / sqrt(n); it is NaN
\* when vecB is shorter than vecA (vecB[index] is undefined) and when a
\* magnitude is 0.  Reading an element of undefined, or multiplying a number
\* with a BigInt of a typed array, throws.
cosineSimilarity(vecA, vecB) ==
  IF vecB.t = "undef" \/ (vecB.t = "u64" /\ Len(vecB.v) > 0)
    THEN [err |-> "TypeError", nan |-> TRUE, d |-> 0, n |-> 0]
    ELSE LET b == IF vecB.t = "arr" THEN vecB.v ELSE <<>>
             dotProduct ==
               SeqSum([i \in 1..Len(vecA) |->
                         IF i <= Len(b) THEN vecA[i] * b[i] ELSE 0])
             sqA == SeqSum([i \in 1..Len(vecA) |-> vecA[i] * vecA[i]])
             sqB == SeqSum([i \in 1..Len(b) |-> b[i] * b[i]])
         IN [err |-> "",
             nan |-> Len(vecA) > Len(b) \/ sqA * sqB = 0,
             d |-> dotProduct,
             n |-> sqA * sqB]

Sgn(x) == IF x > 0 THEN 1 ELSE IF x < 0 THEN -1 ELSE 0
\* a < b for two similarities that are numbers
SimilarityLess(a, b) == Sgn(a.d) * a.d * a.d * b.n < Sgn(b.d) * b.d * b.d * a.n

\* (a, b) => b.similarity - a.similarity, as the sign sort reads; NaN reads 0
BySimilarityDesc(a, b) ==
  IF a.similarity.nan \/ b.similarity.nan
    THEN 0
    ELSE IF SimilarityLess(a.similarity, b.similarity)
      THEN 1
      ELSE IF SimilarityLess(b.similarity, a.similarity) THEN -1 ELSE 0

\* (a, b) => a.distance - b.distance
ByDistanceAsc(a, b) == Sgn(a.distance - b.distance)

\* Array.prototype.sort on a short array: a stable insertion sort.  c[i, j]
\* is the comparator's sign on elements i and j; the order is a sequence of
\* indices.
InsertSorted(order, x, c) ==
  LET after == {k \in 1..Len(order) : c[order[k], x] <= 0}
      j == IF after = {} THEN 0 ELSE CHOOSE k \in after : \A m \in after : m <= k
  IN SubSeq(order, 1, j) \o <<x>> \o SubSeq(order, j + 1, Len(order))

RECURSIVE SortFrom(_, _, _, _)
SortFrom(order, i, n, c) ==
  IF i > n THEN order ELSE SortFrom(InsertSorted(order, i, c), i + 1, n, c)

Sort(s, c) ==
  LET order == SortFrom(<<>>, 1, Len(s), c)
  IN [k \in 1..Len(s) |-> s[order[k]]]

SortBySimilarity(s) ==
  Sort(s, [i \in 1..Len(s), j \in 1..Len(s) |-> BySimilarityDesc(s[i], s[j])])

SortByDistance(s) ==
  Sort(s, [i \in 1..Len(s), j \in 1..Len(s) |-> ByDistanceAsc(s[i], s[j])])

\* array.slice(0, limit)
Slice(s, limit) ==
  LET end == IF limit < 0
               THEN (IF Len(s) + limit > 0 THEN Len(s) + limit ELSE 0)
               ELSE (IF limit < Len(s) THEN limit ELSE Len(s))
  IN SubSeq(s, 1, end)

\* store.getAll(): the stored objects in ascending key order
GetAll(st) ==
  LET keys == Ascending(DOMAIN st) IN [i \in 1..Len(keys) |-> st[keys[i]]]

\* hammingDistance(vectorA, vectorB), vectorA a BigUint64Array
Xor(a, b) == (a \ b) \cup (b \ a)
hammingDistance(vectorA, vectorB) ==
  IF vectorB.t = "undef"
    THEN [err |-> "TypeError", distance |-> 0]
    ELSE IF Len(vectorA.v) # Len(vectorB.v)
      THEN [err |-> "LengthMismatch", distance |-> 0]
      ELSE IF vectorB.t # "u64"
        \* new BigUint64Array(undefined) is empty: bigint ^ undefined throws
        THEN [err |-> IF Len(vectorA.v) = 0 THEN "" ELSE "TypeError",
              distance |-> 0]
        ELSE [err |-> "",
              distance |->
                SeqSum([i \in 1..Len(vectorA.v) |->
                          Cardinality(Xor(vectorA.v[i], vectorB.v[i]))])]

\* ----------------------------------------------------------------- queries
queryOf(st, queryText, limit) ==
  LET queryVector == getEmbeddingFromText(queryText)
      vectors == GetAll(st)
      similarities ==
        [i \in 1..Len(vectors) |->
           [entry |-> vectors[i],
            similarity |->
              cosineSimilarity(queryVector, Get(vectors[i], "vector"))]]
  IN IF \E i \in DOMAIN similarities : similarities[i].similarity.err # ""
       THEN [err |-> "TypeError", ret |-> <<>>]
       ELSE [err |-> "", ret |-> Slice(SortBySimilarity(similarities), limit)]

\* queryManualVectorsOf scoring every entry, as query does: an entry with no
\* vector makes the call fail
queryManualVectorsNoSkip(st, queryVector, limit, vp) ==
  LET vectors == GetAll(st)
      similarities ==
        [i \in 1..Len(vectors) |->
           [entry |-> vectors[i],
            similarity |->
              cosineSimilarity(queryVector, ResolveVector(vectors[i], vp))]]
  IN IF \E i \in DOMAIN similarities : similarities[i].similarity.err # ""
       THEN [err |-> "TypeError", ret |-> <<>>]
       ELSE [err |-> "", ret |-> Slice(SortBySimilarity(similarities), limit)]

queryManualVectorsOf(st, queryVector, limit, vp) ==
  LET vectors == GetAll(st)
      scored == SelectSeq(vectors, LAMBDA entry : IsArray(ResolveVector(entry, vp)))
      similarities ==
        [i \in 1..Len(scored) |->
           [entry |-> scored[i],
            similarity |->
              cosineSimilarity(queryVector, ResolveVector(scored[i], vp))]]
  IN [err |-> "", ret |-> Slice(SortBySimilarity(similarities), limit)]

queryBinaryOf(st, queryText, limit) ==
  LET packedQueryVector ==
        U64(Pack(binarizeVector(getEmbeddingFromText(queryText))))
      vectors == GetAll(st)
      distances ==
        [i \in 1..Len(vectors) |->
           LET h == hammingDistance(packedQueryVector, Get(vectors[i], "vector"))
           IN [entry |-> vectors[i], distance |-> h.distance, err |-> h.err]]
  IN IF \E i \in DOMAIN distances : distances[i].err # ""
       THEN [err |-> distances[CHOOSE i \in DOMAIN distances :
                                  /\ distances[i].err # ""
                                  /\ \A j \in 1..(i - 1) :
                                       distances[j].err = ""].err,
             ret |-> <<>>]
       ELSE [err |-> "", ret |-> Slice(SortByDistance(distances), limit)]

\* --------------------------------------------- the accelerated distance
\* The linear memory as its 8-byte words, word w at byte offset 8 * w.
ZeroMemory == [w \in 0..(MemBytes \div WordBytes - 1) |-> {}]
\* wasmMemory.set(bytes, offset), bytes the buffer of a BigUint64Array
MemSet(mem, words, offset) ==
  LET first == offset \div WordBytes
  IN [w \in DOMAIN mem |->
        IF w >= first /\ w < first + Len(words)
          THEN words[w - first + 1]
          ELSE mem[w]]
Fits(words, offset) == offset + Len(words) * WordBytes <= MemBytes

\* the export hamming_distance(ptrA, ptrB, len) of the embedded module: each
\* step xors and counts 16 bytes, advances both pointers and takes 16 off
\* len; the loop ends only when len is 0
RECURSIVE hamming_distance(_, _, _, _, _)
hamming_distance(mem, ptrA, ptrB, len, dist) ==
  IF len = 0
    THEN [trap |-> FALSE, dist |-> dist]
    ELSE IF ptrA + LaneBytes > MemBytes \/ ptrB + LaneBytes > MemBytes
      THEN [trap |-> TRUE, dist |-> dist]
      ELSE LET a == ptrA \div WordBytes
               b == ptrB \div WordBytes
           IN hamming_distance(
                mem, ptrA + LaneBytes, ptrB + LaneBytes, len - LaneBytes,
                dist + Cardinality(Xor(mem[a], mem[b]))
                     + Cardinality(Xor(mem[a + 1], mem[b + 1])))

\* vectors.map(...) of queryBinarySIMD from entry i on: the memory is the
\* one of the whole scan
RECURSIVE SimdScan(_, _, _, _, _)
SimdScan(mem, vectors, i, len, distances) ==
  IF i > Len(vectors)
    THEN [err |-> "", ret |-> distances]
    ELSE LET v == Get(vectors[i], "vector")
             \* new Uint8Array(entry.vector.buffer); an Array has no buffer
             dbVector == IF v.t = "u64" THEN v.v ELSE <<>>
         IN IF v.t = "undef"
              THEN [err |-> "TypeError", ret |-> <<>>]
              ELSE IF ~Fits(dbVector, OffsetB)
                THEN [err |-> "RangeError", ret |-> <<>>]
                ELSE LET written == MemSet(mem, dbVector, OffsetB)
                         r == hamming_distance(written, 0, OffsetB, len, 0)
                     IN IF r.trap
                          THEN [err |-> "RuntimeError", ret |-> <<>>]
                          ELSE SimdScan(written, vectors, i + 1, len,
                                        Append(distances,
                                               [entry |-> vectors[i],
                                                distance |-> r.dist,
                                                err |-> ""]))

queryBinarySIMDOf(st, queryText, limit) ==
  LET packedQueryVector == Pack(binarizeVector(getEmbeddingFromText(queryText)))
      vectors == GetAll(st)
  IN IF ~Fits(packedQueryVector, 0)
       THEN [err |-> "RangeError", ret |-> <<>>]
       ELSE LET scan == SimdScan(MemSet(ZeroMemory, packedQueryVector, 0),
                                 vectors, 1,
                                 Len(packedQueryVector) * WordBytes, <<>>)
            IN IF scan.err # ""
                 THEN scan
                 ELSE [err |-> "",
                       ret |-> Slice(SortByDistance(scan.ret), limit)]

\* A store is used in one mode: dense vectors or packed ones.
DenseMode(st) == \A k \in DOMAIN st : Get(st[k], "vector").t # "u64"
BinaryMode(st) == \A k \in DOMAIN st : Get(st[k], "vector").t = "u64"

\* A readonly call that may fail.
ReadOutcome(op, arg, out) ==
  /\ CanStart
  /\ last' = Done(op, arg, out.err, out.ret)
  /\ UNCHANGED <<vectorPath, pipe, store, tx, task, wr>>

QueryFailed == [err |-> "PipelineError", ret |-> <<>>]

query(queryText, limit) ==
  /\ DenseMode(store)
  /\ Settled
  /\ ReadOutcome("query", <<queryText, limit>>,
                 IF pipe.status = "failed"
                   THEN QueryFailed
                   ELSE queryOf(store, queryText, limit))

queryManualVectors(queryVector, limit) ==
  /\ DenseMode(store)
  /\ ReadOutcome("queryManualVectors", <<queryVector, limit>>,
                 queryManualVectorsOf(store, queryVector, limit, vectorPath))

queryBinary(queryText, limit) ==
  /\ BinaryMode(store)
  /\ Settled
  /\ ReadOutcome("queryBinary", <<queryText, limit>>,
                 IF pipe.status = "failed"
                   THEN QueryFailed
                   ELSE queryBinaryOf(store, queryText, limit))

queryBinarySIMD(queryText, limit) ==
  /\ BinaryMode(store)
  /\ Settled
  /\ ReadOutcome("queryBinarySIMD", <<queryText, limit>>,
                 IF pipe.status = "failed"
                   THEN QueryFailed
                   ELSE queryBinarySIMDOf(store, queryText, limit))

\* The stores the queries run on: under each id nothing, or what one insert
\* call stores there.
QueryIds == {1, 2, 3}
DenseVectors == {<<1, 0, 0>>, <<0, 1, 0>>, <<1, 1, 0>>, <<1, 0>>}
BinaryTexts == {Str(c) : c \in 1..5}
DenseStored(i, vp) ==
  {insertManualVectorsOutcome(EmptyStore, ("id" :> i) @@ p, vp).st[i] :
     p \in {EmptyObj, "vector" :> Arr(<<1, 0, 0>>)}
            \cup {vp :> Arr(x) : x \in DenseVectors}}
BinaryStored(i, vp) ==
  {insertBinaryOutcome(EmptyStore, ("id" :> i) @@ ("text" :> t), vp).st[i] :
     t \in BinaryTexts}
DenseStores(vp) ==
  UNION {{st \in [D -> UNION {DenseStored(i, vp) : i \in D}] :
            \A i \in D : st[i] \in DenseStored(i, vp)} : D \in SUBSET QueryIds}
BinaryStores(vp) ==
  UNION {{st \in [D -> UNION {BinaryStored(i, vp) : i \in D}] :
            \A i \in D : st[i] \in BinaryStored(i, vp)} : D \in SUBSET Ids}
Limits == -1..MaxLimit
QueryVectors == {<<1, 0, 0>>, <<0, 1, 0>>, <<0, 1>>}

InitQuery ==
  /\ vectorPath \in {"vector", "emb"}
  /\ store \in DenseStores(vectorPath)
                 \cup (IF vectorPath = "vector"
                         THEN BinaryStores(vectorPath) ELSE {})
  /\ tx = NoTx
  /\ task = NoTask
  /\ wr = NoWrite
  /\ last = NoCall
  /\ pipe = Loaded

\* A query leaves the store as it is: one call on each store covers every
\* call on it.
NextQuery ==
  \/ /\ last.op = "none"
     /\ \E limit \in Limits : query(Str(1), limit)
  \/ /\ last.op = "none"
     /\ \E queryVector \in QueryVectors, limit \in Limits :
          queryManualVectors(queryVector, limit)
  \/ /\ last.op = "none"
     /\ \E queryText \in BinaryTexts, limit \in Limits :
          queryBinary(queryText, limit)
  \/ /\ last.op = "none"
     /\ \E queryText \in BinaryTexts, limit \in Limits :
          queryBinarySIMD(queryText, limit)

SpecQuery == InitQuery /\ [][NextQuery]_vars

\* ----------------------------------------------------------------- deletes
delete(key) ==
  SingleWrite("delete", key, [err |-> "", st |-> Delete(store, key), key |-> 0])

\* ----------------------------------------------------------------- updates
\* updateMerge storing the patch's vector whether or not it is a non-empty
\* Array
updateMergeNoPreserve(existing, data, key, vp) ==
  LET newVec == Coalesce(Get(data, vp), Get(data, "vector"))
  IN Spread(Spread(existing, data), ("id" :> key) @@ ("vector" :> newVec))

\* updateMerge with the key written before the patch is spread, so that the
\* patch's id replaces it
updateMergeIdFromPatch(existing, data, key, vp) ==
  LET newVec == Coalesce(Get(data, vp), Get(data, "vector"))
      vecToStore ==
        IF IsArray(newVec) /\ Len(newVec.v) > 0
          THEN newVec
          ELSE Get(existing, "vector")
  IN Spread(Spread(Spread(existing, "id" :> key), data), "vector" :> vecToStore)

\* the object update / updateBatch put back for key
updateMerge(existing, data, key, vp) ==
  LET newVec == Coalesce(Get(data, vp), Get(data, "vector"))
      vecToStore ==
        IF IsArray(newVec) /\ Len(newVec.v) > 0
          THEN newVec
          ELSE Get(existing, "vector")
  IN Spread(Spread(existing, data), ("id" :> key) @@ ("vector" :> vecToStore))

\* updateOutcome putting the merge whether or not a record is stored
updateOutcomeUpsert(st, key, data, vp) ==
  [err |-> "",
   st |-> Put(st, updateMerge(IF key \in DOMAIN st THEN st[key] ELSE EmptyObj,
                              data, key, vp)),
   key |-> 0]

updateOutcome(st, key, data, vp) ==
  IF key \notin DOMAIN st
    THEN [err |-> "NotFound", st |-> st, key |-> 0]
    ELSE [err |-> "", st |-> Put(st, updateMerge(st[key], data, key, vp)),
          key |-> 0]

update(key, data) ==
  SingleWrite("update", <<key, data>>,
              updateOutcome(store, key, data, vectorPath))

\* the loop of updateBatch ending at the first item whose key is not stored
RECURSIVE updateBatchStopAtMissing(_, _, _, _)
updateBatchStopAtMissing(st, updates, i, vp) ==
  IF i > Len(updates) \/ updates[i].key \notin DOMAIN st
    THEN st
    ELSE updateBatchStopAtMissing(
           Put(st, updateMerge(st[updates[i].key], updates[i].data,
                               updates[i].key, vp)),
           updates, i + 1, vp)

\* the loop of updateBatch from item i on; an item is {key, ...data}
RECURSIVE updateBatchFrom(_, _, _, _)
updateBatchFrom(st, updates, i, vp) ==
  IF i > Len(updates)
    THEN st
    ELSE LET key == updates[i].key
             data == updates[i].data
         IN IF key \notin DOMAIN st
              THEN updateBatchFrom(st, updates, i + 1, vp)
              ELSE updateBatchFrom(Put(st, updateMerge(st[key], data, key, vp)),
                                   updates, i + 1, vp)

\* A batch whose only suspensions are requests of its own transaction runs
\* to its commit with no other transaction in between.
AtomicBatch(op, arg, st) ==
  /\ task.op = "none"
  /\ CanStart
  /\ store' = st
  /\ wr' = [op |-> op, status |-> "ok", pre |-> store]
  /\ last' = Done(op, arg, "", <<>>)
  /\ UNCHANGED <<vectorPath, pipe, tx, task>>

updateBatch(updates) ==
  AtomicBatch("updateBatch", updates,
              updateBatchFrom(store, updates, 1, vectorPath))

RECURSIVE deleteBatchFrom(_, _, _)
deleteBatchFrom(st, keys, i) ==
  IF i > Len(keys) THEN st ELSE deleteBatchFrom(Delete(st, keys[i]), keys, i + 1)

deleteBatch(keys) ==
  AtomicBatch("deleteBatch", keys, deleteBatchFrom(store, keys, 1))

\* the patches handed to update: empty, a new vector, an empty vector, and
\* other fields together with an id that is not the key
Patches(vp) ==
  {EmptyObj, vp :> Arr(<<1, 1>>), vp :> Arr(<<>>),
   ("tag" :> Str(2)) @@ ("id" :> 2)}
UpdateItems(vp) ==
  {[key |-> k, data |-> d] :
     k \in Ids, d \in {vp :> Arr(<<1, 1>>), vp :> Arr(<<>>),
                     ("tag" :> Str(2)) @@ ("id" :> 2)}}
UpdateLists(vp) ==
  UNION {[1..n -> UpdateItems(vp)] : n \in 0..MaxBatch}

\* The stores the update calls start from: under each id nothing, or what
\* one insert call stores there.
StoredBy(i, vp) ==
  {insertOutcome(EmptyStore, ("id" :> i) @@ p, vp).st[i] :
     p \in {EmptyObj, vp :> Arr(<<1, 0>>)}}
    \cup {insertBinaryOutcome(EmptyStore, ("id" :> i) @@ p, vp).st[i] :
            p \in {"text" :> Str(1)}}
InsertedStores(vp) ==
  UNION {{st \in [D -> UNION {StoredBy(i, vp) : i \in D}] :
            \A i \in D : st[i] \in StoredBy(i, vp)} : D \in SUBSET Ids}

InitUpdate ==
  /\ vectorPath \in {"vector", "emb"}
  /\ store \in InsertedStores(vectorPath)
  /\ tx = NoTx
  /\ task = NoTask
  /\ wr = NoWrite
  /\ last = NoCall
  /\ pipe = Loaded

\* The behaviours of SpecUpdate: update calls one after the other, ended by
\* one updateBatch or one hasEmbedding.
NextUpdate ==
  \/ /\ last.op \in {"none", "update"}
     /\ \E key \in Ids, data \in Patches(vectorPath) : update(key, data)
  \/ /\ last.op \in {"none", "update"}
     /\ \E updates \in UpdateLists(vectorPath) : updateBatch(updates)
  \/ /\ last.op \in {"none", "update"}
     /\ \E key \in Ids : hasEmbedding(key)

SpecUpdate == InitUpdate /\ [][NextUpdate]_vars

Next ==
  \/ \E data \in Records(vectorPath) : insert(data)
  \/ \E data \in Records(vectorPath) : insertBinary(data)
  \/ \E data \in Records(vectorPath) : insertManualVectors(data)
  \/ \E dataArray \in Batches(vectorPath) : insertManualBatch(dataArray)
  \/ \E dataArray \in Batches(vectorPath) : insertBatch(dataArray)
  \/ BatchItem
  \/ BatchResume
  \/ BatchDone
  \/ \E key \in Ids : delete(key)
  \/ \E key \in Ids : hasEmbedding(key)
  \/ \E keys \in KeyLists : hasEmbeddings(keys)
  \/ getAllKeys
  \/ \E keys \in KeyLists : deleteBatch(keys)
  \/ \E queryVector \in QueryVectors : queryManualVectors(queryVector, 1)

Spec == Init /\ [][Next]_vars

\* The single-record calls alone.
NextSingle ==
  \/ \E data \in Records(vectorPath) : insert(data)
  \/ \E data \in Records(vectorPath) : insertBinary(data)
  \/ \E data \in Records(vectorPath) : insertManualVectors(data)
  \/ \E key \in Ids : delete(key)
  \/ \E key \in Ids : hasEmbedding(key)
  \/ getAllKeys

SpecSingle == Init /\ [][NextSingle]_vars

\* The calls made from the evaluation of the module on, while the model
\* loads.
InitEmbed ==
  /\ vectorPath \in {"vector", "emb"}
  /\ store = EmptyStore
  /\ tx = NoTx
  /\ task = NoTask
  /\ wr = NoWrite
  /\ last = NoCall
  /\ pipe = Loading

NextEmbed ==
  \/ PipeSettle
  \/ \E data \in Records(vectorPath) : insert(data)
  \/ \E data \in Records(vectorPath) : insertBinary(data)
  \/ \E data \in Records(vectorPath) : insertManualVectors(data)
  \/ \E key \in Ids : delete(key)
  \/ \E key \in Ids : hasEmbedding(key)
  \/ query(Str(1), 1)

SpecEmbed == InitEmbed /\ [][NextEmbed]_vars

\* ================================================================ claims
SingleInserts == {"insert", "insertBinary", "insertManualVectors"}
BatchInserts == {"insertBatch", "insertManualBatch"}
ReadOps == {"hasEmbedding", "hasEmbeddings", "getAllKeys",
            "query", "queryManualVectors", "queryBinary", "queryBinarySIMD"}

\* every object stored before the call is stored unchanged after it
Kept(pre, post) ==
  \A k \in DOMAIN pre : k \in DOMAIN post /\ post[k] = pre[k]

\* C1: after insertBatch fails on a batch holding a record without an id,
\* the store holds exactly the records it held before the call.
C1_InsertBatchAllOrNothing ==
  (/\ last.op = "insertBatch"
   /\ last.err # ""
   /\ \E i \in DOMAIN last.arg : NoId(last.arg[i]))
    => store = last.pre

\* C2: a read that runs while a multi-record write is suspended, or after it
\* failed, sees the store as it was before that write: none of its effects.
C2_NoPartialWriteObserved ==
  (/\ last.op \in ReadOps
   /\ wr.status \in {"running", "failed"})
    => last.pre = wr.pre

ResolvedVector(data, vp) ==
  IF HasText(data) THEN getEmbeddingFromText(data["text"]) ELSE Get(data, vp).v

\* C7: after a successful insertBinary the vector stored under the id is the
\* packed binarization of the resolved vector (from the text, or the one the
\* caller supplied under the configured attribute).
C7_InsertBinaryStoresPacked ==
  (/\ last.op = "insertBinary"
   /\ last.err = "")
    => Get(store[last.arg["id"]], "vector")
         = U64(Pack(binarizeVector(ResolvedVector(last.arg, vectorPath))))

HoldsVector(st, key, vp) ==
  /\ key \in DOMAIN st
  /\ LET vec == ReadVector(st[key], vp)
     IN vec.t \in {"arr", "u64"} /\ Len(vec.v) > 0

\* C8: hasEmbedding(id) is true exactly when a record is stored under id and
\* holds a non-empty vector, dense or packed; hasEmbeddings agrees with it.
C8_HasEmbeddingIffVector ==
  /\ last.op = "hasEmbedding"
       => last.ret = HoldsVector(last.pre, last.arg, vectorPath)
  /\ last.op = "hasEmbeddings"
       => \A key \in Range(last.arg) :
            /\ last.ret[key] = HoldsVector(last.pre, key, vectorPath)
            /\ last.ret[key] = hasEmbeddingOf(last.pre, key, vectorPath)

\* C9: a single-record insert of a record without an id fails with the
\* missing-identifier error and leaves the store as it was; no record is
\* ever stored under an id its caller did not supply.
C9_MissingIdRejected ==
  /\ (last.op \in SingleInserts /\ NoId(last.arg))
       => (last.err = "MissingIdentifier" /\ store = last.pre)
  /\ (last.op \in SingleInserts /\ last.err = "")
       => (~NoId(last.arg) /\ DOMAIN store = DOMAIN last.pre \cup {last.arg["id"]})

C9_Witness ==
  /\ last.op \in SingleInserts
  /\ NoId(last.arg)
  /\ last.err = "MissingIdentifier"
  /\ DOMAIN store # {}

\* The first item of a batch that cannot be stored: 0 when there is none.
FirstBad(items, pre) ==
  LET bad == {i \in DOMAIN items :
                \/ NoId(items[i])
                \/ items[i]["id"] \in DOMAIN pre
                \/ \E j \in 1..(i - 1) :
                     ~NoId(items[j]) /\ items[j]["id"] = items[i]["id"]}
  IN IF bad = {} THEN 0 ELSE CHOOSE i \in bad : \A j \in bad : i <= j

\* a record that carries what its insert needs: insertBinary needs a vector
Insertable(op, data, vp) ==
  op = "insertBinary" => (HasText(data) \/ IsArray(Get(data, vp)))

\* C10: an insert of an id that is already stored fails with the backend's
\* duplicate-key error and leaves every stored record unchanged.
C10_DuplicateIdRejected ==
  /\ (/\ last.op \in SingleInserts
      /\ ~NoId(last.arg)
      /\ Insertable(last.op, last.arg, vectorPath)
      /\ last.arg["id"] \in DOMAIN last.pre)
       => (last.err = "ConstraintError" /\ store = last.pre)
  /\ (/\ last.op \in BatchInserts
      /\ FirstBad(last.arg, last.pre) # 0
      /\ ~NoId(last.arg[FirstBad(last.arg, last.pre)]))
       => (last.err = "ConstraintError" /\ Kept(last.pre, store))

PatchVector(data, vp) == Coalesce(Get(data, vp), Get(data, "vector"))

SuppliesVector(data, vp) ==
  IsArray(PatchVector(data, vp)) /\ Len(PatchVector(data, vp).v) > 0

\* C5: after update(id, patch) on a record that holds a dense vector, the
\* vector read back through the configured attribute is the patch's vector
\* when the patch supplies a non-empty sequence, and the vector read back
\* before the update otherwise.
C5_UpdateVectorRule ==
  (/\ last.op = "update"
   /\ last.err = ""
   /\ IsArray(ReadVector(last.pre[last.arg[1]], vectorPath)))
    => LET key == last.arg[1]
           data == last.arg[2]
           expected(read(_, _)) ==
             IF SuppliesVector(data, vectorPath)
               THEN PatchVector(data, vectorPath)
               ELSE read(last.pre[key], vectorPath)
       IN /\ ReadVector(store[key], vectorPath) = expected(ReadVector)
          /\ ResolveVector(store[key], vectorPath) = expected(ResolveVector)

\* C6: update(id, {}) on a stored id leaves the store as it was: the record
\* under id and every other record.
C6_EmptyPatchChangesNothing ==
  (/\ last.op = "update"
   /\ last.arg[2] = EmptyObj
   /\ last.arg[1] \in DOMAIN last.pre)
    => (last.err = "" /\ store = last.pre)

C6_Witness ==
  /\ last.op = "update"
  /\ last.arg[2] = EmptyObj
  /\ last.err = ""
  /\ DOMAIN last.pre = Ids
  /\ IsArray(Get(store[last.arg[1]], "vector"))
  /\ \E k \in Ids : Get(store[k], "vector").t = "u64"

\* C3: on a store of packed vectors that have as many words as the packed
\* query, queryBinarySIMD returns what queryBinary returns: the same
\* distance for each record, in the same order.
C3_SimdEqualsScalar ==
  (/\ last.op = "queryBinarySIMD"
   /\ \A k \in DOMAIN last.pre :
        Len(Get(last.pre[k], "vector").v)
          = Len(Pack(binarizeVector(getEmbeddingFromText(last.arg[1])))))
    => LET scalar == queryBinaryOf(last.pre, last.arg[1], last.arg[2])
       IN last.err = scalar.err /\ last.ret = scalar.ret

QueryOps == {"query", "queryManualVectors", "queryBinary", "queryBinarySIMD"}

\* C4: a query called with limit <= 0 returns an empty result.
C4_NonPositiveLimitIsEmpty ==
  (/\ last.op \in QueryOps
   /\ last.err = ""
   /\ last.arg[2] <= 0)
    => last.ret = <<>>

\* C11: update(id, patch) on an id that is not stored fails with the
\* not-found error and leaves the store as it was: no record appears under
\* id.
C11_UpdateMissingNotFound ==
  (/\ last.op = "update"
   /\ last.arg[1] \notin DOMAIN last.pre)
    => (/\ last.err = "NotFound"
        /\ store = last.pre
        /\ last.arg[1] \notin DOMAIN store)

C11_Witness ==
  /\ last.op = "update"
  /\ last.arg[1] \notin DOMAIN last.pre
  /\ last.pre # EmptyStore
  /\ SuppliesVector(last.arg[2], vectorPath)
  /\ last.err = "NotFound"

\* the dense vectors a cosine query scores, and the vector it scores them
\* against
DenseQueryVector ==
  IF last.op = "query" THEN getEmbeddingFromText(last.arg[1]) ELSE last.arg[1]

ScoredVector(entry) ==
  IF last.op = "query"
    THEN Get(entry, "vector")
    ELSE ResolveVector(entry, vectorPath)

\* C12: a dense query over a store that holds a vector whose length is not
\* the query vector's length fails with the length-mismatch error.
C12_DenseLengthMismatchFails ==
  (/\ last.op \in {"query", "queryManualVectors"}
   /\ \E k \in DOMAIN last.pre :
        /\ IsArray(ScoredVector(last.pre[k]))
        /\ Len(ScoredVector(last.pre[k]).v) # Len(DenseQueryVector))
    => last.err = "LengthMismatch"

\* the bits a text is binarized to before they are packed
BitsOf(text) == binarizeVector(getEmbeddingFromText(text))

Differing(a, b) == Cardinality({j \in DOMAIN a : a[j] # b[j]})

\* C13: hammingDistance, as queryBinary applies it to the packed query and a
\* packed stored vector, fails with the length-mismatch error when the two
\* were packed from different numbers of bits, and returns the number of
\* differing bit positions when they were packed from the same number.
C13_HammingBitLength ==
  last.op = "queryBinary"
    => /\ (\E k \in DOMAIN last.pre :
             Len(BitsOf(last.pre[k]["text"])) # Len(BitsOf(last.arg[1])))
            => last.err = "LengthMismatch"
       /\ (\A k \in DOMAIN last.pre :
             Len(BitsOf(last.pre[k]["text"])) = Len(BitsOf(last.arg[1])))
            => /\ last.err = ""
               /\ \A i \in DOMAIN last.ret :
                    last.ret[i].distance
                      = Differing(BitsOf(last.ret[i].entry["text"]),
                                  BitsOf(last.arg[1]))

\* every record the last query scored, with its score
AllScored ==
  LET n == Cardinality(DOMAIN last.pre)
  IN Range(CASE last.op = "query" -> queryOf(last.pre, last.arg[1], n).ret
             [] last.op = "queryManualVectors"
                  -> queryManualVectorsOf(last.pre, last.arg[1], n,
                                          vectorPath).ret
             [] OTHER -> queryBinaryOf(last.pre, last.arg[1], n).ret)

\* x scores at least as well as y: both scores are numbers, and x's
\* similarity is not less (dense), x's distance not more (binary)
NoWorse(x, y) ==
  IF last.op = "queryBinary"
    THEN x.distance <= y.distance
    ELSE /\ ~x.similarity.nan
         /\ ~y.similarity.nan
         /\ ~SimilarityLess(x.similarity, y.similarity)

\* C14: a query with limit > 0 returns min(limit, number of scored records)
\* results in the order of their scores, best first; no record left out
\* scores better than a returned one; records of equal score come in the
\* order of their keys.
C14_TopKOrdered ==
  (/\ last.op \in {"query", "queryManualVectors", "queryBinary"}
   /\ last.err = ""
   /\ last.arg[2] > 0)
    => /\ Len(last.ret) = (IF last.arg[2] < Cardinality(AllScored)
                             THEN last.arg[2] ELSE Cardinality(AllScored))
       /\ Range(last.ret) \subseteq AllScored
       /\ \A i, j \in DOMAIN last.ret :
            i < j => /\ NoWorse(last.ret[i], last.ret[j])
                     /\ NoWorse(last.ret[j], last.ret[i])
                          => last.ret[i].entry["id"] < last.ret[j].entry["id"]
       /\ \A x \in AllScored \ Range(last.ret), y \in Range(last.ret) :
            NoWorse(y, x)

\* the keys an update call names
UpdatedKeys ==
  IF last.op = "update"
    THEN {last.arg[1]}
    ELSE {last.arg[i].key : i \in DOMAIN last.arg}

\* C15: after update or updateBatch, whatever id a patch carries, the same
\* ids are stored as before, every record's id is the key it is stored
\* under, and the records the call does not name are as they were.
C15_IdImmutable ==
  (/\ last.op \in {"update", "updateBatch"}
   /\ last.err = "")
    => /\ DOMAIN store = DOMAIN last.pre
       /\ \A k \in DOMAIN store : store[k]["id"] = k
       /\ \A k \in DOMAIN store \ UpdatedKeys : store[k] = last.pre[k]

C15_Witness ==
  /\ last.op = "updateBatch"
  /\ last.err = ""
  /\ \E i \in DOMAIN last.arg :
       /\ "id" \in DOMAIN last.arg[i].data
       /\ last.arg[i].data["id"] # last.arg[i].key
       /\ last.arg[i].data["id"] \notin UpdatedKeys
       /\ {last.arg[i].key, last.arg[i].data["id"]} \subseteq DOMAIN last.pre
       /\ Get(store[last.arg[i].key], "tag") = Str(2)

\* the items of an updateBatch applied one after the other as update calls,
\* a call that fails leaving the store as it is
RECURSIVE ApplySingly(_, _, _)
ApplySingly(st, updates, i) ==
  IF i > Len(updates)
    THEN st
    ELSE LET out == updateOutcome(st, updates[i].key, updates[i].data,
                                  vectorPath)
         IN ApplySingly(IF out.err = "" THEN out.st ELSE st, updates, i + 1)

\* C16: updateBatch raises nothing; the store after it is the store that
\* update, called on each item whose key is stored, leaves; the ids stored
\* are the ids stored before.
C16_UpdateBatchSkipsMissing ==
  last.op = "updateBatch"
    => /\ last.err = ""
       /\ store = ApplySingly(last.pre, last.arg, 1)
       /\ DOMAIN store = DOMAIN last.pre

C16_Witness ==
  /\ last.op = "updateBatch"
  /\ last.err = ""
  /\ Len(last.arg) = 2
  /\ last.arg[1].key \notin DOMAIN last.pre
  /\ last.arg[2].key \in DOMAIN last.pre
  /\ store # last.pre

\* the ids of the records a batch insert was handed
BatchIds(items) == {items[i]["id"] : i \in {j \in DOMAIN items : ~NoId(items[j])}}

\* C17: getAllKeys returns the ids that were inserted by a call that
\* succeeded and not deleted since: a successful insert adds its ids, a
\* failed single insert adds none, a delete takes away its ids and raises
\* nothing (none when they are not stored), and after a batch insert that
\* failed getAllKeys returns the ids stored before that batch.
C17_KeysAreInsertedNotDeleted ==
  /\ last.op = "getAllKeys"
       => /\ last.err = ""
          /\ last.ret = Ascending(DOMAIN last.pre)
  /\ (/\ last.op = "getAllKeys"
      /\ wr.op \in BatchInserts
      /\ wr.status = "failed")
       => Range(last.ret) = DOMAIN wr.pre
  /\ last.op \in SingleInserts
       => DOMAIN store
            = DOMAIN last.pre
                \cup (IF last.err = "" THEN {last.arg["id"]} ELSE {})
  /\ (last.op \in BatchInserts /\ last.err = "")
       => DOMAIN store = DOMAIN last.pre \cup BatchIds(last.arg)
  /\ last.op \in {"delete", "deleteBatch"}
       => LET keys == IF last.op = "delete" THEN {last.arg}
                                            ELSE Range(last.arg)
          IN /\ last.err = ""
             /\ DOMAIN store = DOMAIN last.pre \ keys
             /\ \A k \in DOMAIN store : store[k] = last.pre[k]

\* the ids of the stored records that hold a dense vector under the
\* configured attribute or under "vector"
Resolvable(st, vp) ==
  {k \in DOMAIN st :
     IsArray(Get(st[k], vp)) \/ IsArray(Get(st[k], "vector"))}

\* C18: queryManualVectors never fails on a store that holds records with
\* no resolvable vector; it returns stored records that have one, each
\* once, and all of them when the limit allows.
C18_VectorlessSkipped ==
  last.op = "queryManualVectors"
    => /\ last.err = ""
       /\ \A i \in DOMAIN last.ret :
            /\ last.ret[i].entry["id"] \in Resolvable(last.pre, vectorPath)
            /\ last.ret[i].entry = last.pre[last.ret[i].entry["id"]]
            /\ \A j \in DOMAIN last.ret :
                 last.ret[i].entry["id"] = last.ret[j].entry["id"] => i = j
       /\ last.arg[2] >= 0
            => Len(last.ret)
                 = (IF last.arg[2] < Cardinality(Resolvable(last.pre, vectorPath))
                      THEN last.arg[2]
                      ELSE Cardinality(Resolvable(last.pre, vectorPath)))

C18_Witness ==
  /\ last.op = "queryManualVectors"
  /\ last.err = ""
  /\ vectorPath = "emb"
  /\ DOMAIN last.pre \ Resolvable(last.pre, vectorPath) # {}
  /\ \E k \in DOMAIN last.pre :
       ~IsArray(Get(last.pre[k], "emb")) /\ IsArray(Get(last.pre[k], "vector"))
  /\ Len(last.ret) = 2

\* the linear memory at the i-th call of the kernel in a scan of vectors
\* with the packed query q: q written at 0, then the stored vectors up to
\* the i-th written at OffsetB
RECURSIVE MemoryAt(_, _, _)
MemoryAt(q, vectors, i) ==
  IF i = 0
    THEN MemSet(ZeroMemory, q, 0)
    ELSE MemSet(MemoryAt(q, vectors, i - 1),
                Get(vectors[i], "vector").v, OffsetB)

\* C20: at every call of the kernel in a queryBinarySIMD scan that ran to
\* its end, the bytes of the query (from offset 0) end before the bytes of
\* the stored vector begin (OffsetB), and the memory from offset 0 still
\* holds the query's words.
C20_OperandsDisjoint ==
  (/\ last.op = "queryBinarySIMD"
   /\ last.err = "")
    => LET q == Pack(BitsOf(last.arg[1]))
           vectors == GetAll(last.pre)
       IN \A i \in DOMAIN vectors :
            /\ Len(q) * WordBytes <= OffsetB
            /\ \A w \in DOMAIN q : MemoryAt(q, vectors, i)[w - 1] = q[w]

\* the calls that ask the embedding provider for an embedding
EmbeddingCall ==
  \/ last.op \in {"insert", "insertBinary"} /\ NeedsEmbedding(last.arg)
  \/ last.op \in {"query", "queryBinary", "queryBinarySIMD"}

\* C19: the embedding provider is initialized at most once, and not before
\* a call has asked for an embedding: as long as no call has been made it
\* is not initialized; a call that asked for an embedding has finished
\* only after the one initialization settled, and with its error when it
\* failed.
C19_LazySingleInit ==
  /\ pipe.inits <= 1
  /\ (last.op = "none" /\ task.op = "none") => pipe.inits = 0
  /\ EmbeddingCall
       => /\ pipe.status # "pending"
          /\ pipe.status = "failed" => last.err = "PipelineError"

\* C21: every call of the kernel that a queryBinarySIMD scan makes ends with
\* a distance: for the packed query's number of words, odd or even, the
\* remaining length reaches 0 before a load leaves the memory, and the
\* query does not end in the kernel's trap.
C21_KernelTerminates ==
  (/\ last.op = "queryBinarySIMD"
   /\ last.err \in {"", "RuntimeError"})
    => LET q == Pack(BitsOf(last.arg[1]))
           vectors == GetAll(last.pre)
       IN /\ last.err = ""
          /\ \A i \in DOMAIN vectors :
               ~hamming_distance(MemoryAt(q, vectors, i), 0, OffsetB,
                                 Len(q) * WordBytes, 0).trap

====
